---- MODULE Spec2Model ----
(***************************************************************************)
(* Cluster-field validation of the metakube cluster resource               *)
(* (metakube/resource_metakube_cluster_validation.go).                     *)
(*                                                                         *)
(* One validation pass is a sequential program: the orchestrator           *)
(* metakubeResourceClusterValidateClusterFields calls the rules one after  *)
(* another and appends their diagnostics to ret; the update path calls     *)
(* metakubeResourceClusterValidateVersionUpgrade on its own.  Every remote *)
(* request is recorded in calls, and each request may fail or succeed      *)
(* independently of the others.                                            *)
(*                                                                         *)
(* Go values: a *string is <<>> (nil) or <<s>>; an error is <<>> (nil) or  *)
(* <<message>>; an interface{} holding a string is <<s>>, the nil          *)
(* interface is <<>>.  Strings are TLA+ strings and fmt/strings.Join are   *)
(* computed by concatenation.  An attribute path (cty.Path) is written in  *)
(* the dotted form the configuration accessor uses for the same field.     *)
(***************************************************************************)
EXTENDS Integers, Sequences, FiniteSets, TLC

\* Bounds of the model: the longest lists the remote service returns.
MaxVersions == 2
MaxNets == 2
MaxSubnets == 2

VARIABLES
    d,          \* *schema.ResourceData: the configuration under validation
    k,          \* *metakubeProviderMeta: the remote data behind k.client
    newVersion, \* argument of the version-upgrade rule
    cluster,    \* argument of the version-upgrade rule (*models.Cluster)
    pc,         \* position of the running validation call
    ret,        \* diag.Diagnostics accumulated by the running call
    calls       \* remote requests issued so far, in order

vars == <<d, k, newVersion, cluster, pc, ret, calls>>

Nil == <<>>

Range(s) == {s[i] : i \in 1..Len(s)}

SeqsUpTo(S, n) == UNION {[1..m -> S] : m \in 0..n}

RECURSIVE Join(_, _)
\* strings.Join(elems, sep)
Join(elems, sep) ==
    IF Len(elems) = 0 THEN ""
    ELSE IF Len(elems) = 1 THEN elems[1]
    ELSE elems[1] \o sep \o Join(Tail(elems), sep)

\* fmt's %v of a []string: the elements separated by spaces, in brackets
FmtSlice(list) == "[" \o Join(list, " ") \o "]"

\* fmt's %v of an error: its message, or <nil> for the nil error
FmtErr(err) == IF err = Nil THEN "<nil>" ELSE err[1]

(***************************************************************************)
(* cty attribute paths                                                     *)
(***************************************************************************)
GetAttrPath(name) == name
IndexInt(path, i) == path \o "." \o ToString(i)
GetAttr(path, name) == path \o "." \o name

OpenstackKey == "spec.0.cloud.0.openstack.0"
VersionKey == "spec.0.version"
FloatingIPPoolKey == "spec.0.cloud.0.openstack.0.floating_ip_pool"
NetworkKey == "spec.0.cloud.0.openstack.0.network"
SubnetIDKey == "spec.0.cloud.0.openstack.0.subnet_id"
UsernameKey == "spec.0.cloud.0.openstack.0.username"
PasswordKey == "spec.0.cloud.0.openstack.0.password"
TenantKey == "spec.0.cloud.0.openstack.0.tenant"
AppCredIDKey == "spec.0.cloud.0.openstack.0.application_credentials_id"
AppCredSecretKey == "spec.0.cloud.0.openstack.0.application_credentials_secret"
DCNameKey == "dc_name"

\* The string attributes of the resource that the validation reads.
AttrKeys ==
    {DCNameKey, VersionKey, FloatingIPPoolKey, NetworkKey, SubnetIDKey,
     UsernameKey, PasswordKey, TenantKey, AppCredIDKey, AppCredSecretKey}

\* The fields and blocks of the resource that a diagnostic can point to.
SchemaPaths == AttrKeys \cup {OpenstackKey}

(***************************************************************************)
(* Configuration accessor (schema.ResourceData)                            *)
(***************************************************************************)
\* d.Get(key): the configured value, the type's zero value ("") when the
\* attribute is not configured, nil only for a key outside the schema.
Get(key) == IF key \in DOMAIN d.attrs THEN <<d.attrs[key]>> ELSE Nil

\* d.GetOk(key): ok iff the value is set and is not the zero value.
GetOk(key) ==
    IF key = OpenstackKey THEN d.openstack
    ELSE key \in DOMAIN d.attrs /\ d.attrs[key] # ""

toStrPtrOrNil(v) == IF v = Nil THEN Nil ELSE <<v[1]>>

newOpenstackValidationData ==
    [dcName |-> toStrPtrOrNil(Get(DCNameKey)),
     domain |-> <<"Default">>,
     username |-> toStrPtrOrNil(Get(UsernameKey)),
     password |-> toStrPtrOrNil(Get(PasswordKey)),
     tenant |-> toStrPtrOrNil(Get(TenantKey)),
     applicationCredentialsID |-> toStrPtrOrNil(Get(AppCredIDKey)),
     applicationCredentialsSecret |-> toStrPtrOrNil(Get(AppCredSecretKey)),
     network |-> toStrPtrOrNil(Get(NetworkKey)),
     subnetID |-> toStrPtrOrNil(Get(SubnetIDKey))]

(***************************************************************************)
(* Diagnostics and remote requests                                         *)
(***************************************************************************)
Diagnostic(summary, path, detail) ==
    [Severity |-> "Error", Summary |-> summary, AttributePath |-> path,
     Detail |-> detail]

\* diag.Errorf / diag.FromErr: an error diagnostic with a summary only
Errorf(msg) == Diagnostic(msg, "", "")

\* The message of the error a failed remote request returns.
RemoteError == "connection refused"

stringifyResponseError(msg) == msg

\* One remote request: the operation, the network id it asks for (subnets
\* only) and whether the remote answered.
Call(op, networkID, ok) == [op |-> op, networkID |-> networkID, ok |-> ok]

(***************************************************************************)
(* Lookup helpers                                                          *)
(***************************************************************************)
\* Mutant of findNetwork: the external flag is not compared.
findNetwork_AnyPolarity(list, network, external) ==
    LET hits == {i \in 1..Len(list) : list[i].Name = network}
    IN IF hits = {} THEN Nil
       ELSE <<list[CHOOSE i \in hits : \A j \in hits : i <= j]>>

findNetwork(list, network, external) ==
    LET hits == {i \in 1..Len(list) :
                    list[i].Name = network /\ list[i].External = external}
    IN IF hits = {} THEN Nil
       ELSE <<list[CHOOSE i \in hits : \A j \in hits : i <= j]>>

findSubnet(list, id) ==
    LET hits == {i \in 1..Len(list) : list[i].ID = id}
    IN IF hits = {} THEN Nil
       ELSE <<list[CHOOSE i \in hits : \A j \in hits : i <= j]>>

\* ok: whether the ListOpenstackNetworks request succeeds.  (The message
\* quotes the name with backquotes, written here as apostrophes.)
getNetwork(data, name, external, ok) ==
    LET issued == <<Call("ListOpenstackNetworks", "", ok)>>
        found == findNetwork(k.networks, name, external)
    IN IF ~ok
       THEN [network |-> Nil, all |-> <<>>,
             err |-> <<"find network instance " \o stringifyResponseError(RemoteError)>>,
             calls |-> issued]
       ELSE IF found = Nil
       THEN [network |-> Nil, all |-> k.networks,
             err |-> <<"network '" \o name \o "' not found">>,
             calls |-> issued]
       ELSE [network |-> found, all |-> k.networks, err |-> Nil,
             calls |-> issued]

\* ok: whether the ListOpenstackSubnets request succeeds.
getSubnet(data, networkID, ok) ==
    LET issued == <<Call("ListOpenstackSubnets", networkID, ok)>>
    IN IF ~ok
       THEN [subnets |-> <<>>, ok |-> FALSE,
             err |-> <<"list network subnets: " \o stringifyResponseError(RemoteError)>>,
             calls |-> issued]
       ELSE [subnets |-> k.subnets[networkID],
             ok |-> findSubnet(k.subnets[networkID], data.subnetID[1]) # Nil,
             err |-> Nil, calls |-> issued]

validateOpenstackNetworkExistsIfSet(field, external, ok) ==
    IF ~GetOk(field)
    THEN [all |-> <<>>, err |-> Nil, calls |-> <<>>]
    ELSE LET r == getNetwork(newOpenstackValidationData, Get(field)[1], external, ok)
         IN [all |-> r.all, err |-> r.err, calls |-> r.calls]

RECURSIVE NamesWhereExternal(_, _)
\* the loop collecting n.Name of the networks whose External flag is external
NamesWhereExternal(nets, external) ==
    IF Len(nets) = 0 THEN <<>>
    ELSE (IF nets[1].External = external THEN <<nets[1].Name>> ELSE <<>>)
         \o NamesWhereExternal(Tail(nets), external)

RECURSIVE SubnetPairs(_)
\* the loop formatting every subnet as name/id
SubnetPairs(subnets) ==
    IF Len(subnets) = 0 THEN <<>>
    ELSE <<subnets[1].Name \o "/" \o subnets[1].ID>> \o SubnetPairs(Tail(subnets))

RECURSIVE VersionLoop_KeepsLast(_, _, _)
\* Mutant of VersionLoop: available is overwritten instead of appended to.
VersionLoop_KeepsLast(payload, version, available) ==
    IF Len(payload) = 0 THEN [found |-> FALSE, available |-> available]
    ELSE IF payload[1] = version
    THEN [found |-> TRUE, available |-> <<payload[1]>>]
    ELSE VersionLoop_KeepsLast(Tail(payload), version, <<payload[1]>>)

RECURSIVE VersionLoop(_, _, _)
\* the loop over r.Payload: appends each version to available, and stops at
\* the first one equal to version
VersionLoop(payload, version, available) ==
    IF Len(payload) = 0 THEN [found |-> FALSE, available |-> available]
    ELSE IF payload[1] = version
    THEN [found |-> TRUE, available |-> Append(available, payload[1])]
    ELSE VersionLoop(Tail(payload), version, Append(available, payload[1]))

(***************************************************************************)
(* Rules: each yields its diagnostics and the remote requests it issued    *)
(***************************************************************************)
metakubeResourceValidateVersionExistence(ok) ==
    LET version == Get(VersionKey)[1]
        issued == <<Call("GetMasterVersions", "", ok)>>
        loop == VersionLoop(k.versions, version, <<>>)
    IN IF ~ok
       THEN [diags |-> <<Errorf(stringifyResponseError(RemoteError))>>, calls |-> issued]
       ELSE IF loop.found
       THEN [diags |-> <<>>, calls |-> issued]
       ELSE [diags |-> <<Diagnostic(
                 "unknown version " \o version,
                 GetAttr(IndexInt(GetAttrPath("spec"), 0), "version"),
                 "Please select one of available versions: " \o FmtSlice(loop.available))>>,
             calls |-> issued]

metakubeResourceClusterValidateVersionUpgrade(ok) ==
    LET issued == <<Call("GetClusterUpgradesV2", "", ok)>>
        loop == VersionLoop(k.upgrades, newVersion, <<>>)
    IN IF ~ok
       THEN [diags |-> <<Errorf(RemoteError)>>, calls |-> issued]
       ELSE IF loop.found
       THEN [diags |-> <<>>, calls |-> issued]
       ELSE [diags |-> <<Diagnostic(
                 "not allowed upgrade " \o cluster.Spec.Version \o "->" \o newVersion,
                 GetAttr(IndexInt(GetAttrPath("spec"), 0), "version"),
                 "Please select one of available upgrades: " \o FmtSlice(loop.available))>>,
             calls |-> issued]

OpenstackPath ==
    IndexInt(GetAttr(IndexInt(GetAttr(IndexInt(GetAttrPath("spec"), 0), "cloud"), 0),
                     "openstack"), 0)

metakubeResourceClusterValidateFloatingIPPool(ok) ==
    LET r == validateOpenstackNetworkExistsIfSet(FloatingIPPoolKey, TRUE, ok)
        diagnoseDetail ==
            IF Len(r.all) > 0
            THEN "We found following floating IP pools: "
                 \o FmtSlice(NamesWhereExternal(r.all, TRUE))
            ELSE ""
    IN IF r.err # Nil
       THEN [diags |-> <<Diagnostic("invalid value: " \o FmtErr(r.err),
                                    GetAttr(OpenstackPath, "floating_ip_pool"),
                                    diagnoseDetail)>>,
             calls |-> r.calls]
       ELSE [diags |-> <<>>, calls |-> r.calls]

metakubeResourceClusterValidateOpenstackNetwork(ok) ==
    LET r == validateOpenstackNetworkExistsIfSet(NetworkKey, FALSE, ok)
        names == NamesWhereExternal(r.all, FALSE)
        diagnoseDetail ==
            IF Len(names) > 0
            THEN "We found following networks: " \o FmtSlice(names)
            ELSE ""
    IN IF r.err # Nil
       THEN [diags |-> <<Diagnostic("invalid value: " \o FmtErr(r.err),
                                    GetAttr(OpenstackPath, "network"),
                                    diagnoseDetail)>>,
             calls |-> r.calls]
       ELSE [diags |-> <<>>, calls |-> r.calls]

\* Mutant of metakubeResourceClusterValidateAccessCredentialsSet: the
\* completeness checks come before the exclusivity check.
AccessCredentialsSet_CompletenessFirst ==
    LET username == d.attrs[UsernameKey] # ""
        password == d.attrs[PasswordKey] # ""
        tenant == d.attrs[TenantKey] # ""
        id == d.attrs[AppCredIDKey] # ""
        secret == d.attrs[AppCredSecretKey] # ""
        basicDetails ==
            (IF ~username THEN <<"username not set">> ELSE <<>>)
            \o (IF ~password THEN <<"password not set">> ELSE <<>>)
            \o (IF ~tenant THEN <<"tenant not set">> ELSE <<>>)
        appDetails ==
            (IF ~id THEN <<"application_credentials_id not set">> ELSE <<>>)
            \o (IF ~secret THEN <<"application_credentials_secret not set">> ELSE <<>>)
    IN IF (username \/ password \/ tenant) /\ (~username \/ ~password \/ ~tenant)
       THEN <<Diagnostic(
                "Please set all username, password, tenant fields or use application_credentials_id, application_credentials_secret fields",
                OpenstackPath, Join(basicDetails, ", "))>>
       ELSE IF (id \/ secret) /\ (~id \/ ~secret)
       THEN <<Diagnostic(
                "Please set both application_credentials_id, application_credentials_secret fields",
                OpenstackPath, Join(appDetails, ", "))>>
       ELSE IF (username \/ password \/ tenant) /\ (id \/ secret)
       THEN <<Diagnostic(
                "Please use either username, password, tenant or application_credentials_id, application_credentials_secret, not both",
                OpenstackPath, "")>>
       ELSE <<>>

\* Mutant of metakubeResourceClusterValidateAccessCredentialsSet: the tenant
\* is left out of the completeness check of the first style.
AccessCredentialsSet_TenantForgotten ==
    LET username == d.attrs[UsernameKey] # ""
        password == d.attrs[PasswordKey] # ""
        tenant == d.attrs[TenantKey] # ""
        id == d.attrs[AppCredIDKey] # ""
        secret == d.attrs[AppCredSecretKey] # ""
        basicDetails ==
            (IF ~username THEN <<"username not set">> ELSE <<>>)
            \o (IF ~password THEN <<"password not set">> ELSE <<>>)
        appDetails ==
            (IF ~id THEN <<"application_credentials_id not set">> ELSE <<>>)
            \o (IF ~secret THEN <<"application_credentials_secret not set">> ELSE <<>>)
    IN IF (username \/ password \/ tenant) /\ (id \/ secret)
       THEN <<Diagnostic(
                "Please use either username, password, tenant or application_credentials_id, application_credentials_secret, not both",
                OpenstackPath, "")>>
       ELSE IF (username \/ password) /\ (~username \/ ~password)
       THEN <<Diagnostic(
                "Please set all username, password, tenant fields or use application_credentials_id, application_credentials_secret fields",
                OpenstackPath, Join(basicDetails, ", "))>>
       ELSE IF (id \/ secret) /\ (~id \/ ~secret)
       THEN <<Diagnostic(
                "Please set both application_credentials_id, application_credentials_secret fields",
                OpenstackPath, Join(appDetails, ", "))>>
       ELSE <<>>

metakubeResourceClusterValidateAccessCredentialsSet ==
    LET data == newOpenstackValidationData
        username == data.username # Nil /\ data.username[1] # ""
        password == data.password # Nil /\ data.password[1] # ""
        tenant == data.tenant # Nil /\ data.tenant[1] # ""
        applicationCredentialsID ==
            data.applicationCredentialsID # Nil /\ data.applicationCredentialsID[1] # ""
        applicationCredentialsSecret ==
            data.applicationCredentialsSecret # Nil
            /\ data.applicationCredentialsSecret[1] # ""
        basicDetails ==
            (IF ~username THEN <<"username not set">> ELSE <<>>)
            \o (IF ~password THEN <<"password not set">> ELSE <<>>)
            \o (IF ~tenant THEN <<"tenant not set">> ELSE <<>>)
        appDetails ==
            (IF ~applicationCredentialsID
             THEN <<"application_credentials_id not set">> ELSE <<>>)
            \o (IF ~applicationCredentialsSecret
                THEN <<"application_credentials_secret not set">> ELSE <<>>)
    IN IF (username \/ password \/ tenant)
          /\ (applicationCredentialsID \/ applicationCredentialsSecret)
       THEN <<Diagnostic(
                "Please use either username, password, tenant or application_credentials_id, application_credentials_secret, not both",
                OpenstackPath, "")>>
       ELSE IF (username \/ password \/ tenant) /\ (~username \/ ~password \/ ~tenant)
       THEN <<Diagnostic(
                "Please set all username, password, tenant fields or use application_credentials_id, application_credentials_secret fields",
                OpenstackPath, Join(basicDetails, ", "))>>
       ELSE IF (applicationCredentialsID \/ applicationCredentialsSecret)
               /\ (~applicationCredentialsID \/ ~applicationCredentialsSecret)
       THEN <<Diagnostic(
                "Please set both application_credentials_id, application_credentials_secret fields",
                OpenstackPath, Join(appDetails, ", "))>>
       ELSE <<>>

\* Mutant of diagnoseOpenstackSubnetWithIDExistsIfSet: a failed
\* ListOpenstackSubnets request is dropped without a diagnostic.
diagnoseSubnet_SilentOnFailure(okNet, okSub) ==
    LET data == newOpenstackValidationData
    IN IF data.network = Nil \/ data.subnetID = Nil
       THEN [diags |-> <<>>, calls |-> <<>>]
       ELSE LET n == getNetwork(data, data.network[1], TRUE, okNet)
            IN IF n.err # Nil
               THEN [diags |-> <<>>, calls |-> n.calls]
               ELSE LET s == getSubnet(data, n.network[1].ID, okSub)
                        diagnoseDetail ==
                            IF Len(s.subnets) > 0
                            THEN "We found following subnets (name/id): "
                                 \o FmtSlice(SubnetPairs(s.subnets))
                            ELSE ""
                    IN IF s.ok \/ s.err # Nil
                       THEN [diags |-> <<>>, calls |-> n.calls \o s.calls]
                       ELSE [diags |-> <<Diagnostic(
                                 "invalid value: " \o FmtErr(s.err),
                                 GetAttr(OpenstackPath, "subnetID"),
                                 diagnoseDetail)>>,
                             calls |-> n.calls \o s.calls]

\* okNet, okSub: whether the ListOpenstackNetworks and the
\* ListOpenstackSubnets requests succeed.
diagnoseOpenstackSubnetWithIDExistsIfSet(okNet, okSub) ==
    LET data == newOpenstackValidationData
    IN IF data.network = Nil \/ data.subnetID = Nil
       THEN [diags |-> <<>>, calls |-> <<>>]
       ELSE LET n == getNetwork(data, data.network[1], TRUE, okNet)
            IN IF n.err # Nil
               THEN [diags |-> <<>>, calls |-> n.calls]
               ELSE LET s == getSubnet(data, n.network[1].ID, okSub)
                        diagnoseDetail ==
                            IF Len(s.subnets) > 0
                            THEN "We found following subnets (name/id): "
                                 \o FmtSlice(SubnetPairs(s.subnets))
                            ELSE ""
                    IN IF s.ok
                       THEN [diags |-> <<>>, calls |-> n.calls \o s.calls]
                       ELSE [diags |-> <<Diagnostic(
                                 "invalid value: " \o FmtErr(s.err),
                                 GetAttr(OpenstackPath, "subnetID"),
                                 diagnoseDetail)>>,
                             calls |-> n.calls \o s.calls]

(***************************************************************************)
(* Inputs                                                                  *)
(***************************************************************************)
RequestedVersions == {"1.25.0", "1.99.0"}
RemoteVersions == {"1.25.0", "1.26.0"}

Network(name, id, external) == [Name |-> name, ID |-> id, External |-> external]
Subnet(name, id) == [Name |-> name, ID |-> id]

ProdInt == Network("prod-net", "n1", FALSE)
ProdExt == Network("prod-net", "n2", TRUE)
PoolExt == Network("ext-pool", "n3", TRUE)
PoolInt == Network("ext-pool", "n4", FALSE)
UnnamedExt == Network("", "n5", TRUE)

NetRecords == {ProdInt, ProdExt, PoolExt, PoolInt}
NetIDs == {"n1", "n2", "n3", "n4", "n5"}
SubnetRecords == {Subnet("a", "s1"), Subnet("b", "s2")}

VersionLists == SeqsUpTo(RemoteVersions, MaxVersions)
NetLists == SeqsUpTo(NetRecords, MaxNets)
SubnetLists == SeqsUpTo(SubnetRecords, MaxSubnets)

NoSubnets == [id \in NetIDs |-> <<>>]

\* A configuration: cred is the five credential attributes in the order
\* username, password, tenant, application_credentials_id,
\* application_credentials_secret.
Config(version, openstack, fip, network, subnetID, cred) ==
    [openstack |-> openstack,
     attrs |-> (DCNameKey :> "dc1") @@ (VersionKey :> version)
               @@ (FloatingIPPoolKey :> fip) @@ (NetworkKey :> network)
               @@ (SubnetIDKey :> subnetID)
               @@ (UsernameKey :> cred[1]) @@ (PasswordKey :> cred[2])
               @@ (TenantKey :> cred[3]) @@ (AppCredIDKey :> cred[4])
               @@ (AppCredSecretKey :> cred[5])]

NoCred == <<"", "", "", "", "">>
BasicCred == <<"user", "secret", "tenant", "", "">>
Creds == [1..5 -> {"", "x"}]

Remote(versions, upgrades, networks, subnets) ==
    [versions |-> versions, upgrades |-> upgrades, networks |-> networks,
     subnets |-> subnets]

SomeVersions == <<"1.25.0", "1.26.0">>

\* No OpenStack block: every requested version against every version list.
InitVersion ==
    /\ \E v \in RequestedVersions :
          d = Config(v, FALSE, "", "", "", NoCred)
    /\ \E vs \in VersionLists, ns \in {<<>>, <<ProdInt, PoolExt>>} :
          k = Remote(vs, <<>>, ns, NoSubnets)
    /\ pc = "validateClusterFields"

\* Every combination of set and unset credential attributes.
InitCredentials ==
    /\ \E c \in Creds : d = Config("1.25.0", TRUE, "", "", "", c)
    /\ k = Remote(SomeVersions, <<>>, <<ProdInt, PoolExt>>, NoSubnets)
    /\ pc = "validateClusterFields"

\* Floating IP pool and network, set or unset, against every network list.
InitNetworks ==
    /\ \E fip \in {"", "ext-pool"}, net \in {"", "prod-net"} :
          d = Config("1.25.0", TRUE, fip, net, "", BasicCred)
    /\ \E ns \in NetLists : k = Remote(SomeVersions, <<>>, ns, NoSubnets)
    /\ pc = "validateClusterFields"

\* Network and subnet id, set or unset, against the subnets of the networks
\* named prod-net and of a network without a name.
InitSubnets ==
    /\ \E net \in {"", "prod-net"}, sub \in {"", "s1", "s9"} :
          d = Config("1.25.0", TRUE, "", net, sub, BasicCred)
    /\ \E ns \in {<<>>, <<ProdInt>>, <<ProdExt>>, <<ProdInt, ProdExt>>, <<UnnamedExt>>},
          s1 \in SubnetLists, s2 \in SubnetLists :
          k = Remote(SomeVersions, <<>>, ns,
                     [id \in NetIDs |-> IF id = "n1" THEN s1
                                        ELSE IF id = "n2" THEN s2 ELSE <<>>])
    /\ pc = "validateClusterFields"

\* Several rules failing in one pass.
InitMixed ==
    /\ \E v \in RequestedVersions, fip \in {"", "ext-pool"}, sub \in {"", "s9"},
          c \in {NoCred, BasicCred, <<"user", "", "", "", "">>,
                 <<"user", "", "", "id", "">>, <<"", "", "", "", "secret">>} :
          d = Config(v, TRUE, fip, "prod-net", sub, c)
    /\ \E ns \in {<<ProdInt>>, <<ProdInt, ProdExt>>, <<PoolInt, ProdExt>>} :
          k = Remote(SomeVersions, <<>>, ns,
                     [id \in NetIDs |-> <<Subnet("a", "s1"), Subnet("b", "s2")>>])
    /\ pc = "validateClusterFields"

\* The update path: every new version against every list of upgrades.
InitUpgrade ==
    /\ d = Config("1.25.0", FALSE, "", "", "", NoCred)
    /\ \E us \in VersionLists : k = Remote(SomeVersions, us, <<>>, NoSubnets)
    /\ pc = "validateVersionUpgrade"

Init ==
    /\ \/ InitVersion
       \/ InitCredentials
       \/ InitNetworks
       \/ InitSubnets
       \/ InitMixed
       \/ InitUpgrade
    /\ newVersion \in (IF pc = "validateVersionUpgrade"
                       THEN RequestedVersions \cup RemoteVersions
                       ELSE {"1.25.0"})
    /\ cluster = [ID |-> "c1", Spec |-> [Version |-> "1.24.0"]]
    /\ ret = <<>>
    /\ calls = <<>>

(***************************************************************************)
(* metakubeResourceClusterValidateClusterFields, statement by statement    *)
(***************************************************************************)
RunRule(r, next) ==
    /\ ret' = ret \o r.diags
    /\ calls' = calls \o r.calls
    /\ pc' = next
    /\ UNCHANGED <<d, k, newVersion, cluster>>

ValidateVersionExistence ==
    /\ pc = "validateClusterFields"
    /\ \E ok \in BOOLEAN :
          RunRule(metakubeResourceValidateVersionExistence(ok), "openstackBlock")

\* Mutant of CheckOpenstackBlock: no early return without an OpenStack block.
CheckOpenstackBlock_NoEarlyReturn ==
    /\ pc = "openstackBlock"
    /\ pc' = "floatingIPPool"
    /\ UNCHANGED <<d, k, newVersion, cluster, ret, calls>>

CheckOpenstackBlock ==
    /\ pc = "openstackBlock"
    /\ pc' = IF ~GetOk(OpenstackKey) THEN "done" ELSE "floatingIPPool"
    /\ UNCHANGED <<d, k, newVersion, cluster, ret, calls>>

ValidateFloatingIPPool ==
    /\ pc = "floatingIPPool"
    /\ \E ok \in BOOLEAN :
          RunRule(metakubeResourceClusterValidateFloatingIPPool(ok), "openstackNetwork")

\* Mutant of ValidateOpenstackNetwork: the call returns as soon as the rule
\* reports a diagnostic.
ValidateOpenstackNetwork_StopsOnError ==
    /\ pc = "openstackNetwork"
    /\ \E ok \in BOOLEAN :
          LET r == metakubeResourceClusterValidateOpenstackNetwork(ok)
          IN RunRule(r, IF r.diags # <<>> THEN "done" ELSE "accessCredentials")

ValidateOpenstackNetwork ==
    /\ pc = "openstackNetwork"
    /\ \E ok \in BOOLEAN :
          RunRule(metakubeResourceClusterValidateOpenstackNetwork(ok), "accessCredentials")

ValidateAccessCredentialsSet ==
    /\ pc = "accessCredentials"
    /\ RunRule([diags |-> metakubeResourceClusterValidateAccessCredentialsSet,
                calls |-> <<>>], "subnet")

DiagnoseSubnet ==
    /\ pc = "subnet"
    /\ \E okNet \in BOOLEAN, okSub \in BOOLEAN :
          RunRule(diagnoseOpenstackSubnetWithIDExistsIfSet(okNet, okSub), "done")

ValidateVersionUpgrade ==
    /\ pc = "validateVersionUpgrade"
    /\ \E ok \in BOOLEAN :
          RunRule(metakubeResourceClusterValidateVersionUpgrade(ok), "done")

Next ==
    \/ ValidateVersionExistence
    \/ CheckOpenstackBlock
    \/ ValidateFloatingIPPool
    \/ ValidateOpenstackNetwork
    \/ ValidateAccessCredentialsSet
    \/ DiagnoseSubnet
    \/ ValidateVersionUpgrade

Spec == Init /\ [][Next]_vars

(***************************************************************************)
(* Properties                                                              *)
(***************************************************************************)
IsPrefix(s, t) == Len(s) <= Len(t) /\ SubSeq(t, 1, Len(s)) = s

Suffix(s, t) == SubSeq(t, Len(s) + 1, Len(t))

\* The running call is metakubeResourceClusterValidateClusterFields.
FieldsPass == pc # "validateVersionUpgrade" /\ (calls = <<>> \/ calls[1].op # "GetClusterUpgradesV2")

Returned == pc = "done" /\ FieldsPass

Value(key) == d.attrs[key]

DiagsAt(paths) == SelectSeq(ret, LAMBDA dg : dg.AttributePath \in paths)

\* The subnet attribute as the schema spells it and as the subnet rule
\* writes it in its diagnostic.
SubnetPaths == {SubnetIDKey, OpenstackKey \o ".subnetID"}

OpenstackPaths == {OpenstackKey, FloatingIPPoolKey, NetworkKey} \cup SubnetPaths

AllOk == \A i \in 1..Len(calls) : calls[i].ok

\* C1: without an OpenStack cloud block the result of
\* metakubeResourceClusterValidateClusterFields is the version-existence
\* rule's diagnostics alone: no diagnostic on the block or on one of its
\* fields, and no ListOpenstackNetworks or ListOpenstackSubnets request.
C1_NoOpenstackOnlyVersion ==
    (Returned /\ ~d.openstack) =>
        /\ Len(calls) = 1
        /\ calls[1].op = "GetMasterVersions"
        /\ ret = metakubeResourceValidateVersionExistence(calls[1].ok).diags
        /\ DiagsAt(OpenstackPaths) = <<>>

C1_Witness ==
    /\ Returned
    /\ ~d.openstack
    /\ Len(ret) = 1
    /\ ret[1].AttributePath = VersionKey
    /\ k.networks # <<>>

\* C2: after a successful GetMasterVersions the version-existence rule
\* yields nothing when the requested version is in the returned list, and
\* otherwise exactly one error on spec.0.version whose detail enumerates the
\* whole returned list in order.
C2_VersionExistence ==
    (pc = "openstackBlock" /\ calls[1].ok) =>
        IF Value(VersionKey) \in Range(k.versions)
        THEN ret = <<>>
        ELSE /\ Len(ret) = 1
             /\ ret[1].Severity = "Error"
             /\ ret[1].AttributePath = VersionKey
             /\ ret[1].Summary = "unknown version " \o Value(VersionKey)
             /\ ret[1].Detail =
                    "Please select one of available versions: [" \o Join(k.versions, " ") \o "]"

C2_Witness ==
    /\ pc = "openstackBlock"
    /\ calls[1].ok
    /\ Value(VersionKey) = "1.99.0"
    /\ k.versions = <<"1.25.0", "1.26.0">>
    /\ Len(ret) = 1
    /\ ret[1].Summary = "unknown version 1.99.0"
    /\ ret[1].Detail = "Please select one of available versions: [1.25.0 1.26.0]"

IsSet(key) == Value(key) # ""

BasicTouched == IsSet(UsernameKey) \/ IsSet(PasswordKey) \/ IsSet(TenantKey)
BasicFull == IsSet(UsernameKey) /\ IsSet(PasswordKey) /\ IsSet(TenantKey)
AppTouched == IsSet(AppCredIDKey) \/ IsSet(AppCredSecretKey)
AppFull == IsSet(AppCredIDKey) /\ IsSet(AppCredSecretKey)

\* The credential rule has run.
CredentialsChecked == FieldsPass /\ pc \in {"subnet", "done"} /\ d.openstack

\* Only the credential rule attaches a diagnostic to the block itself.
CredentialDiags == DiagsAt({OpenstackKey})

\* C3: when both credential styles are touched the credential rule yields
\* exactly one diagnostic, the exclusivity error on the OpenStack block, and
\* no missing-field diagnostic.
C3_Exclusive ==
    (CredentialsChecked /\ BasicTouched /\ AppTouched) =>
        /\ Len(CredentialDiags) = 1
        /\ CredentialDiags[1] =
               Diagnostic(
                   "Please use either username, password, tenant or application_credentials_id, application_credentials_secret, not both",
                   OpenstackKey, "")

C3_Witness ==
    /\ CredentialsChecked
    /\ IsSet(UsernameKey) /\ ~IsSet(PasswordKey) /\ ~IsSet(TenantKey)
    /\ ~IsSet(AppCredIDKey) /\ IsSet(AppCredSecretKey)
    /\ Len(CredentialDiags) = 1

\* The unset attributes among keys, each as "<name> not set", joined by ", ".
NotSet(keys, names) ==
    LET unset == SelectSeq([i \in 1..Len(keys) |-> i], LAMBDA i : ~IsSet(keys[i]))
    IN Join([j \in 1..Len(unset) |-> names[unset[j]] \o " not set"], ", ")

\* C4: when only one credential style is touched the credential rule yields
\* no diagnostic exactly when nothing is set or the style is fully set; a
\* partially set style gives exactly one error whose detail names exactly
\* its unset fields in the order username, password, tenant (or id, secret).
C4_Completeness ==
    (CredentialsChecked /\ ~(BasicTouched /\ AppTouched)) =>
        /\ (CredentialDiags = <<>>) <=>
               ((~BasicTouched /\ ~AppTouched) \/ BasicFull \/ AppFull)
        /\ (BasicTouched /\ ~BasicFull) =>
               /\ Len(CredentialDiags) = 1
               /\ CredentialDiags[1].Severity = "Error"
               /\ CredentialDiags[1].Detail =
                      NotSet(<<UsernameKey, PasswordKey, TenantKey>>,
                             <<"username", "password", "tenant">>)
        /\ (AppTouched /\ ~AppFull) =>
               /\ Len(CredentialDiags) = 1
               /\ CredentialDiags[1].Severity = "Error"
               /\ CredentialDiags[1].Detail =
                      NotSet(<<AppCredIDKey, AppCredSecretKey>>,
                             <<"application_credentials_id",
                               "application_credentials_secret">>)
        /\ (IsSet(UsernameKey) /\ ~IsSet(PasswordKey) /\ ~IsSet(TenantKey)) =>
               CredentialDiags[1].Detail = "password not set, tenant not set"

C4_Witness ==
    /\ CredentialsChecked
    /\ IsSet(UsernameKey) /\ ~IsSet(PasswordKey) /\ ~IsSet(TenantKey)
    /\ ~AppTouched
    /\ Len(CredentialDiags) = 1
    /\ CredentialDiags[1].Detail = "password not set, tenant not set"

\* The first network of the remote list with the configured name that is
\* not external, as a one-element set (empty when there is none).
InternalNetwork ==
    LET hits == {i \in 1..Len(k.networks) :
                    k.networks[i].Name = Value(NetworkKey) /\ ~k.networks[i].External}
    IN {k.networks[i] : i \in {h \in hits : \A j \in hits : h <= j}}

PairsOf(subnets) == [i \in 1..Len(subnets) |-> subnets[i].Name \o "/" \o subnets[i].ID]

\* C5: when the configured network exists remotely as a non-external network
\* and the configured subnet id is not among the subnets of that network,
\* the subnet rule yields exactly one error on the subnet field whose detail
\* lists every returned subnet as name/id.  (The diagnostic is looked for
\* under either spelling of the subnet attribute, so that what the check
\* shows is the diagnostic missing, not its path.)
C5_SubnetOfConfiguredNetwork ==
    (/\ Returned /\ d.openstack /\ AllOk
     /\ IsSet(NetworkKey) /\ IsSet(SubnetIDKey)
     /\ InternalNetwork # {}
     /\ \A n \in InternalNetwork :
           \A i \in 1..Len(k.subnets[n.ID]) : k.subnets[n.ID][i].ID # Value(SubnetIDKey))
    => /\ Len(DiagsAt(SubnetPaths)) = 1
       /\ DiagsAt(SubnetPaths)[1].Severity = "Error"
       /\ \A n \in InternalNetwork :
             k.subnets[n.ID] # <<>> =>
                 DiagsAt(SubnetPaths)[1].Detail =
                     "We found following subnets (name/id): " \o FmtSlice(PairsOf(k.subnets[n.ID]))

SubnetsFailed ==
    /\ Returned
    /\ calls[Len(calls)].op = "ListOpenstackSubnets"
    /\ ~calls[Len(calls)].ok

SubnetFailureSummary == "invalid value: list network subnets: " \o RemoteError

C7_PathsNameSchemaFields ==
    \A i \in 1..Len(ret) : ret[i].AttributePath \in SchemaPaths

RuleOrder ==
    <<"validateClusterFields", "openstackBlock", "floatingIPPool",
      "openstackNetwork", "accessCredentials", "subnet", "done">>

\* What the statement at position p can append to ret, over the outcomes of
\* its remote requests.
RuleDiags(p) ==
    CASE p = "validateClusterFields" ->
             {metakubeResourceValidateVersionExistence(ok).diags : ok \in BOOLEAN}
      [] p = "openstackBlock" -> {<<>>}
      [] p = "floatingIPPool" ->
             {metakubeResourceClusterValidateFloatingIPPool(ok).diags : ok \in BOOLEAN}
      [] p = "openstackNetwork" ->
             {metakubeResourceClusterValidateOpenstackNetwork(ok).diags : ok \in BOOLEAN}
      [] p = "accessCredentials" ->
             {metakubeResourceClusterValidateAccessCredentialsSet}
      [] p = "subnet" ->
             {diagnoseOpenstackSubnetWithIDExistsIfSet(a, b).diags : a, b \in BOOLEAN}
      [] OTHER -> {}

\* C8: with an OpenStack block the orchestrator runs version-existence,
\* floating-IP-pool, network, credentials, subnet in that order, one after
\* another; each runs whatever ret already holds, and ret grows by exactly
\* that rule's diagnostics.
C8_FixedOrder ==
    [][(FieldsPass /\ d.openstack /\ pc # "done") =>
          /\ \E i \in 1..6 : pc = RuleOrder[i] /\ pc' = RuleOrder[i + 1]
          /\ IsPrefix(ret, ret')
          /\ Suffix(ret, ret') \in RuleDiags(pc)]_vars

C8_Witness ==
    /\ Returned
    /\ d.openstack
    /\ Len(ret) = 5
    /\ ret[1].AttributePath = VersionKey
    /\ ret[2].AttributePath = FloatingIPPoolKey
    /\ ret[3].AttributePath = NetworkKey
    /\ ret[4].AttributePath = OpenstackKey
    /\ ret[5].AttributePath \in SubnetPaths

NamesOf(nets, external) ==
    LET sel == SelectSeq(nets, LAMBDA n : n.External = external)
    IN [i \in 1..Len(sel) |-> sel[i].Name]

\* What C9 states of one step of the rule on field with the expected
\* external flag, prefix being the text that introduces the list of names.
NetworkRuleStep(field, external, prefix) ==
    LET diags == Suffix(ret, ret')
        issued == Suffix(calls, calls')
        names == NamesOf(k.networks, external)
        match == \E n \in Range(k.networks) :
                    n.Name = Value(field) /\ n.External = external
    IN /\ IsPrefix(ret, ret')
       /\ IsPrefix(calls, calls')
       /\ ~IsSet(field) => (diags = <<>> /\ issued = <<>>)
       /\ IsSet(field) =>
             /\ Len(issued) = 1
             /\ issued[1].op = "ListOpenstackNetworks"
             /\ (issued[1].ok /\ match) => diags = <<>>
             /\ (issued[1].ok /\ ~match) =>
                   /\ Len(diags) = 1
                   /\ diags[1].Severity = "Error"
                   /\ diags[1].AttributePath = field
                   /\ diags[1].Detail \in
                          (IF names = <<>> THEN {"", prefix \o "[]"}
                           ELSE {prefix \o "[" \o Join(names, " ") \o "]"})
             /\ ~issued[1].ok =>
                   /\ Len(diags) = 1
                   /\ diags[1].Severity = "Error"
                   /\ diags[1].AttributePath = field
                   /\ diags[1].Detail = ""

\* C9: the floating-IP-pool rule (external) and the network rule (not
\* external) do nothing when the field is unset; when it is set they issue
\* exactly one ListOpenstackNetworks request and yield nothing exactly when
\* the list has a network of that name and polarity, one error on the field
\* listing the names of that polarity on no match, and one error without a
\* list when the request fails.
C9_NetworkRules ==
    [][/\ pc = "floatingIPPool" =>
             NetworkRuleStep(FloatingIPPoolKey, TRUE,
                             "We found following floating IP pools: ")
       /\ pc = "openstackNetwork" =>
             NetworkRuleStep(NetworkKey, FALSE, "We found following networks: ")]_vars

C9_Witness ==
    /\ pc = "openstackNetwork"
    /\ Value(FloatingIPPoolKey) = "ext-pool"
    /\ k.networks = <<PoolInt, ProdExt>>
    /\ calls[Len(calls)].op = "ListOpenstackNetworks"
    /\ calls[Len(calls)].ok
    /\ Len(ret) = 1
    /\ ret[1].AttributePath = FloatingIPPoolKey
    /\ ret[1].Detail = "We found following floating IP pools: [prod-net]"

CountCalls(op) == Cardinality({i \in 1..Len(calls) : calls[i].op = op})

\* C10: when the network name or the subnet id is not set, the subnet rule
\* issues no ListOpenstackNetworks or ListOpenstackSubnets request and
\* returns no diagnostic.  (The two network rules issue one
\* ListOpenstackNetworks request for each of their fields that is set; any
\* further request is the subnet rule's.)
C10_SubnetRuleNeedsBothFields ==
    (Returned /\ d.openstack /\ (~IsSet(NetworkKey) \/ ~IsSet(SubnetIDKey))) =>
        /\ CountCalls("ListOpenstackSubnets") = 0
        /\ CountCalls("ListOpenstackNetworks") =
               (IF IsSet(FloatingIPPoolKey) THEN 1 ELSE 0)
               + (IF IsSet(NetworkKey) THEN 1 ELSE 0)
        /\ DiagsAt(SubnetPaths) = <<>>

====
